---- MODULE Spec2Model ----
\* Circuit breaker (goldenverba/components/circuit_breaker.py) and retry
\* handler (goldenverba/components/retry.py) of the Weaviate resilience layer.
EXTENDS Integers, FiniteSets, Sequences, TLC

\* ---------------------------------------------------------------- bounds
MaxFailures == 2      \* largest max_failures a breaker is configured with
MaxTimeout == 2       \* largest timeout_duration, in clock ticks
MaxTime == 3          \* the clock runs from 0 to MaxTime
MaxCount == 3         \* cap on FailureThreshold.current_count
MaxAttempts == 3      \* largest RetryPolicy.max_attempts
MaxItems == 2         \* largest batch given to execute_batch_with_partial_retry
MaxRounds == 5        \* cap on the rounds of a batch run
MaxBase == 3          \* largest base_delay of a backoff
MaxMultiplier == 2    \* largest multiplier of an exponential backoff
MaxDelay == 100       \* largest max_delay of an exponential backoff

\* ---------------------------------------------------------------- values
None == "None"
NoTime == 0 - 1       \* an unset timestamp (Optional[datetime] is None)
NoFault == [type |-> None, msg |-> None]   \* last_exception = None

CLOSED == "CLOSED"
OPEN == "OPEN"
HALF_OPEN == "HALF_OPEN"
CircuitBreakerState == {CLOSED, OPEN, HALF_OPEN}

\* exception classes of exceptions.py, plus the builtin Exception
FaultTypes ==
    {"WeaviateConnectionError", "WeaviateBatchError", "WeaviatePermanentError",
     "WeaviateCircuitBreakerError", "Exception"}

\* a raised fault: its class and where it was raised
Faults == [type : FaultTypes, msg : {"operation failed"}]

\* the faults an operation closure raises
OpFaults ==
    [type : {"WeaviateConnectionError", "WeaviatePermanentError"},
     msg : {"operation failed"}]

\* Exception("Circuit breaker open") of execute_with_retry
CircuitOpenFault == [type |-> "Exception", msg |-> "Circuit breaker open"]

Callers == {"c1", "c2"}

\* the collaborators of the breaker: _metrics_collector, _event_publisher,
\* _alerting, _swarm_coordinator, _load_balancer
Observers == {"metrics", "publisher", "alerting", "swarm", "lb"}

VARIABLES
    max_failures,       \* FailureThreshold.max_failures
    timeout_duration,   \* TimeWindow.timeout_duration
    error_classifier,   \* FailureThreshold._error_classifier: "none" or "default"
    initial_state,      \* the initial_state the breaker was constructed with
    max_attempts,       \* RetryPolicy.max_attempts
    policy_cb,          \* RetryPolicy._circuit_breaker is attached
    handler_cb,         \* WeaviateRetryHandler._circuit_breaker is attached
    breaker,            \* the fields of the WeaviateCircuitBreaker
    now,                \* the clock (Timer.now / datetime.now)
    last_call,          \* the last public call made from outside and its answer
    relevant_failures,  \* how many counted faults record_failure was given so far
    attached,           \* the breaker was constructed with its collaborators
    raising,            \* the collaborator whose methods raise, or "none"
    notice,             \* what the last call to the breaker told its collaborators
    stats,              \* the statistics the last call returned, if it read them
    batch,              \* the run of execute_batch_with_partial_retry
    fn,                 \* the last call of a function of its arguments alone
    task,               \* the execute_with_retry call of each caller
    history             \* what the breaker did and sent since its construction

cfgvars == <<max_failures, timeout_duration, error_classifier, initial_state,
             max_attempts, policy_cb, handler_cb, attached, raising>>
vars == <<max_failures, timeout_duration, error_classifier, initial_state,
          max_attempts, policy_cb, handler_cb, breaker, now, last_call,
          relevant_failures, attached, raising, notice, stats, batch, fn,
          task, history>>

\* ---------------------------------------------------------------- classifiers
\* circuit_breaker.DefaultErrorClassifier.is_circuit_breaking_error
is_circuit_breaking_error(error) ==
    error.type \in {"WeaviateConnectionError", "WeaviateTimeoutError"}

\* retry.DefaultErrorClassifier.is_retryable
is_retryable(exception) ==
    exception.type # "WeaviatePermanentError"

\* ---------------------------------------------------------------- breaker
\* is_timeout_expired with a strict comparison: exactly T is not yet elapsed
is_timeout_expired_strict(b, t) ==
    IF b.last_failure_time = NoTime
    THEN TRUE
    ELSE t - b.last_failure_time > timeout_duration

\* TimeWindow.is_timeout_expired
is_timeout_expired(b, t) ==
    IF b.last_failure_time = NoTime
    THEN TRUE
    ELSE t - b.last_failure_time >= timeout_duration

\* TimeWindow.record_failure_time
record_failure_time(b, t) ==
    [b EXCEPT !.last_failure_time = t]

\* the guard of FailureThreshold.increment_failure
counts_toward_threshold(error) ==
    IF error_classifier # "none"
    THEN is_circuit_breaking_error(error)
    ELSE TRUE

\* 1 for a fault that counts toward the threshold, 0 for any other
Counted(error) ==
    IF counts_toward_threshold(error) THEN 1 ELSE 0

\* increment_failure that never asks the classifier
increment_failure_unclassified(b, error) ==
    [b EXCEPT !.current_count = @ + 1]

\* FailureThreshold.increment_failure
increment_failure(b, error) ==
    IF counts_toward_threshold(error)
    THEN [b EXCEPT !.current_count = @ + 1]
    ELSE b

\* is_threshold_breached with a strict comparison
is_threshold_breached_strict(b) ==
    b.current_count > max_failures

\* FailureThreshold.is_threshold_breached
is_threshold_breached(b) ==
    b.current_count >= max_failures

\* FailureThreshold.reset
reset(b) ==
    [b EXCEPT !.current_count = 0]

\* WeaviateCircuitBreaker._transition_to_state
transition_to_state(b, new_state, t) ==
    [b EXCEPT !.current_state = new_state, !.last_state_change = t]

\* WeaviateCircuitBreaker.circuit_id and .protected_endpoint, set once in
\* __init__
CircuitId == "circuit-1"

ProtectedEndpoint == "weaviate"

\* no statistics were returned
NoStats ==
    [circuit_id |-> None, state |-> None, failure_count |-> 0,
     last_state_change |-> NoTime, protected_endpoint |-> None]

\* WeaviateCircuitBreaker.get_circuit_stats, the dictionary it returns
get_circuit_stats(b) ==
    [circuit_id |-> CircuitId, state |-> b.current_state,
     failure_count |-> b.current_count,
     last_state_change |-> b.last_state_change,
     protected_endpoint |-> ProtectedEndpoint]

\* no collaborator was told anything
NoNotice ==
    [from |-> None, to |-> None, calls |-> [o \in Observers |-> 0],
     raised |-> FALSE]

\* the order in which _transition_to_state calls the collaborators
NotifyOrder == <<"publisher", "alerting", "swarm", "lb">>

\* _transition_to_state sending the alert on every transition
notify_alerts_always(old_state, new_state) ==
    LET due(o) == attached
        stop == IF \E i \in 1..4 : NotifyOrder[i] = raising /\ due(raising)
                THEN CHOOSE i \in 1..4 : NotifyOrder[i] = raising
                ELSE 5
    IN  [from |-> old_state, to |-> new_state,
         calls |-> [o \in Observers |->
                      IF \E i \in 1..4 : NotifyOrder[i] = o /\ due(o) /\ i <= stop
                      THEN 1 ELSE 0],
         raised |-> stop <= 4]

\* WeaviateCircuitBreaker._transition_to_state, the calls to the collaborators:
\* each attached one is called in turn, the alerting only when the new state is
\* OPEN, and a call that raises ends the method
notify(old_state, new_state) ==
    LET due(o) == attached /\ (o = "alerting" => new_state = OPEN)
        stop == IF \E i \in 1..4 : NotifyOrder[i] = raising /\ due(raising)
                THEN CHOOSE i \in 1..4 : NotifyOrder[i] = raising
                ELSE 5
    IN  [from |-> old_state, to |-> new_state,
         calls |-> [o \in Observers |->
                      IF \E i \in 1..4 : NotifyOrder[i] = o /\ due(o) /\ i <= stop
                      THEN 1 ELSE 0],
         raised |-> stop <= 4]

\* nothing has happened to the breaker and its load balancer yet
NoHistory ==
    [transitioned |-> FALSE, lb_status |-> None]

\* _transition_to_state, the status it sends to the load balancer
endpoint_status(new_state) ==
    IF new_state = CLOSED THEN "AVAILABLE" ELSE "UNAVAILABLE"

\* the history after a call that took the breaker from b to b2 and told the
\* collaborators n: a status counts as sent once update_endpoint_status is
\* called
Remember(h, b, b2, n) ==
    [transitioned |-> h.transitioned \/ b2.current_state # b.current_state,
     lb_status |-> IF n.calls["lb"] = 1 THEN endpoint_status(n.to)
                   ELSE h.lb_status]

\* what a call that took the breaker from b to b2 told the collaborators
Told(b, b2) ==
    IF b2.current_state # b.current_state
    THEN notify(b.current_state, b2.current_state)
    ELSE NoNotice

\* should_allow_request that lets requests through an OPEN breaker
should_allow_request_ret_open_allows(b, t) ==
    IF b.current_state = CLOSED THEN TRUE
    ELSE IF b.current_state = OPEN THEN TRUE
    ELSE IF b.current_state = HALF_OPEN THEN TRUE
    ELSE FALSE

\* WeaviateCircuitBreaker.should_allow_request: the value it returns
should_allow_request_ret(b, t) ==
    IF b.current_state = CLOSED THEN TRUE
    ELSE IF b.current_state = OPEN THEN is_timeout_expired(b, t)
    ELSE IF b.current_state = HALF_OPEN THEN TRUE
    ELSE FALSE

\* should_allow_request that admits one probe in HALF_OPEN and then holds
\* the others back
should_allow_request_single_probe(b, t) ==
    IF b.current_state = OPEN /\ is_timeout_expired(b, t)
    THEN transition_to_state(b, HALF_OPEN, t)
    ELSE IF b.current_state = HALF_OPEN
    THEN transition_to_state(b, OPEN, t)
    ELSE b

\* WeaviateCircuitBreaker.should_allow_request: the breaker it leaves
should_allow_request(b, t) ==
    IF b.current_state = OPEN /\ is_timeout_expired(b, t)
    THEN transition_to_state(b, HALF_OPEN, t)
    ELSE b

\* record_failure that re-opens from HALF_OPEN only on a breached threshold
record_failure_half_open_threshold(b, error, t) ==
    LET b1 == record_failure_time(b, t)
        b2 == increment_failure(b1, error)
    IN  IF b2.current_state \in {CLOSED, HALF_OPEN} /\ is_threshold_breached(b2)
        THEN transition_to_state(b2, OPEN, t)
        ELSE b2

\* WeaviateCircuitBreaker.record_failure
record_failure(b, error, t) ==
    LET b1 == record_failure_time(b, t)
        b2 == increment_failure(b1, error)
    IN  IF b2.current_state = CLOSED
        THEN IF is_threshold_breached(b2)
             THEN transition_to_state(b2, OPEN, t)
             ELSE b2
        ELSE IF b2.current_state = HALF_OPEN
             THEN transition_to_state(b2, OPEN, t)
             ELSE b2

\* WeaviateCircuitBreaker.record_failure with collaborators: a metrics
\* collector that raises ends the call before the state is looked at
record_failure_observed(b, error, t) ==
    IF attached /\ raising = "metrics"
    THEN [breaker |-> increment_failure(record_failure_time(b, t), error),
          notice |-> [NoNotice EXCEPT !.raised = TRUE]]
    ELSE [breaker |-> record_failure(b, error, t),
          notice |-> Told(b, record_failure(b, error, t))]

\* record_success that forgets to reset the threshold
record_success_no_reset(b, t) ==
    IF b.current_state = HALF_OPEN
    THEN transition_to_state(b, CLOSED, t)
    ELSE b

\* record_success that resets the threshold in every state
record_success_resets_always(b, t) ==
    IF b.current_state = HALF_OPEN
    THEN transition_to_state(reset(b), CLOSED, t)
    ELSE reset(b)

\* record_success that closes an OPEN breaker as well
record_success_closes_open(b, t) ==
    IF b.current_state \in {HALF_OPEN, OPEN}
    THEN transition_to_state(reset(b), CLOSED, t)
    ELSE b

\* WeaviateCircuitBreaker.record_success
record_success(b, t) ==
    IF b.current_state = HALF_OPEN
    THEN transition_to_state(reset(b), CLOSED, t)
    ELSE b

\* ---------------------------------------------------------------- policy
\* should_retry that gives up one attempt too early
should_retry_ret_early(attempt, exception, b, t) ==
    IF attempt + 1 >= max_attempts THEN FALSE
    ELSE IF ~is_retryable(exception) THEN FALSE
    ELSE IF policy_cb /\ ~should_allow_request_ret(b, t) THEN FALSE
    ELSE TRUE

\* should_retry that allows one attempt too many
should_retry_ret_off_by_one(attempt, exception, b, t) ==
    IF attempt > max_attempts THEN FALSE
    ELSE IF ~is_retryable(exception) THEN FALSE
    ELSE IF policy_cb /\ ~should_allow_request_ret(b, t) THEN FALSE
    ELSE TRUE

\* RetryPolicy.should_retry: the value it returns
should_retry_ret(attempt, exception, b, t) ==
    IF attempt >= max_attempts THEN FALSE
    ELSE IF ~is_retryable(exception) THEN FALSE
    ELSE IF policy_cb /\ ~should_allow_request_ret(b, t) THEN FALSE
    ELSE TRUE

\* should_retry that only looks at the breaker without asking it
should_retry_peeks(attempt, exception, b, t) ==
    b

\* RetryPolicy.should_retry: the breaker it leaves
should_retry(attempt, exception, b, t) ==
    IF attempt >= max_attempts THEN b
    ELSE IF ~is_retryable(exception) THEN b
    ELSE IF policy_cb THEN should_allow_request(b, t)
    ELSE b

\* ---------------------------------------------------------------- handler
\* the except block raising the fault of the round before instead of e
HandleException_raises_previous(tk, b, e, t) ==
    LET b1 == IF handler_cb THEN record_failure(b, e, t) ELSE b
        retry == should_retry_ret(tk.attempt, e, b1, t)
        b2 == should_retry(tk.attempt, e, b1, t)
        asked == tk.attempt < max_attempts /\ is_retryable(e) /\ policy_cb
    IN  [task |-> [tk EXCEPT
                     !.last_exception = e,
                     !.pc = IF retry THEN "sleep" ELSE "done",
                     !.outcome = IF retry THEN None ELSE "raised",
                     !.raised = IF retry THEN NoFault
                                ELSE IF tk.last_exception = NoFault THEN e
                                ELSE tk.last_exception,
                     !.denied = @ \/ (asked /\ ~should_allow_request_ret(b1, t))],
         breaker |-> b2,
         counted |-> IF handler_cb THEN Counted(e) ELSE 0]

\* WeaviateRetryHandler.execute_with_retry, the except block: from the fault e
\* caught in round tk.attempt to the backoff sleep or the final raise
HandleException(tk, b, e, t) ==
    LET b1 == IF handler_cb THEN record_failure(b, e, t) ELSE b
        retry == should_retry_ret(tk.attempt, e, b1, t)
        b2 == should_retry(tk.attempt, e, b1, t)
        asked == tk.attempt < max_attempts /\ is_retryable(e) /\ policy_cb
    IN  [task |-> [tk EXCEPT
                     !.last_exception = e,
                     !.pc = IF retry THEN "sleep" ELSE "done",
                     !.outcome = IF retry THEN None ELSE "raised",
                     !.raised = IF retry THEN NoFault ELSE e,
                     !.denied = @ \/ (asked /\ ~should_allow_request_ret(b1, t))],
         breaker |-> b2,
         counted |-> IF handler_cb THEN Counted(e) ELSE 0]

\* WeaviateRetryHandler.execute_with_retry, the try block up to the await of
\* the operation: the breaker is asked, and the request is rejected or started
LoopTop(tk, b, t) ==
    IF handler_cb /\ ~should_allow_request_ret(b, t)
    THEN HandleException([tk EXCEPT !.rejected = TRUE, !.denied = TRUE],
                         should_allow_request(b, t),
                         IF tk.last_exception = NoFault
                         THEN CircuitOpenFault
                         ELSE tk.last_exception,
                         t)
    ELSE [task |-> [tk EXCEPT !.pc = "op", !.calls = @ + 1, !.rejected = FALSE],
          breaker |-> IF handler_cb THEN should_allow_request(b, t) ELSE b,
          counted |-> 0]

\* ---------------------------------------------------------------- state
NoCall ==
    [op |-> "none", type |-> None, attempt |-> 0, ret |-> FALSE,
     from |-> None, count |-> 0, elapsed |-> NoTime, relevant |-> FALSE]

\* a public call as it is remembered: its arguments, its answer and the
\* breaker it found
Call(op, type, attempt, ret, relevant) ==
    [op |-> op, type |-> type, attempt |-> attempt, ret |-> ret,
     from |-> breaker.current_state, count |-> breaker.current_count,
     elapsed |-> IF breaker.last_failure_time = NoTime THEN NoTime
                 ELSE now - breaker.last_failure_time,
     relevant |-> relevant]

\* no function was called
NoFn == [op |-> "none", arg |-> None, ret |-> None, raised |-> FALSE]

\* StatusAnalyzer.extract_status returning None: 'if status:' takes None and
\* 0 alike
NoStatus == 0

\* the status codes a fault carries
StatusCodes == {400, 404, 429, 500, 503}

\* the words of a fault's message
Messages == {{}, {"connection", "timed out"}, {"not", "found"}, {"timeout"}}

\* builtin TimeoutError and ConnectionError with a subclass, and two classes
\* that derive from neither
NativeTypes ==
    {"TimeoutError", "ConnectionError", "ConnectionRefusedError", "ValueError",
     "WeaviateConnectionError"}

\* the exceptions given to ErrorClassifier.is_retryable
Exceptions ==
    [status : {NoStatus} \cup StatusCodes, message : Messages, type : NativeTypes]

\* StatusAnalyzer.extract_status of the classifier's status analyzer
extract_status(exception) ==
    exception.status

\* StatusAnalyzer.is_retryable_status: the status table, 429 and 5xx
is_retryable_status(status_code) ==
    status_code = 429 \/ status_code \in 500..599

\* the timeout indicators of the message analyzer
TimeoutIndicators == {"timeout", "timed out"}

\* MessageAnalyzer.contains_timeout_indicator
contains_timeout_indicator(message) ==
    message \cap TimeoutIndicators # {}

\* isinstance(exception, (TimeoutError, ConnectionError))
IsNativeConnectionOrTimeout(exception) ==
    exception.type \in {"TimeoutError", "ConnectionError", "ConnectionRefusedError"}

\* is_retryable looking at the message before the status
ErrorClassifier_is_retryable_message_first(exception) ==
    IF contains_timeout_indicator(exception.message) THEN TRUE
    ELSE IF extract_status(exception) # NoStatus
    THEN is_retryable_status(extract_status(exception))
    ELSE IF IsNativeConnectionOrTimeout(exception) THEN TRUE
    ELSE FALSE

\* ErrorClassifier.is_retryable of a classifier given both analyzers
ErrorClassifier_is_retryable(exception) ==
    IF extract_status(exception) # NoStatus
    THEN is_retryable_status(extract_status(exception))
    ELSE IF contains_timeout_indicator(exception.message) THEN TRUE
    ELSE IF IsNativeConnectionOrTimeout(exception) THEN TRUE
    ELSE FALSE

\* b ** n for integers, n >= 0
RECURSIVE Pow(_, _)
Pow(b, n) ==
    IF n = 0 THEN 1 ELSE b * Pow(b, n - 1)

\* min(a, b)
Min(a, b) ==
    IF a <= b THEN a ELSE b

\* the attempts a delay is asked for
Attempts == 1..(MaxAttempts + 1)

\* calculate_delay raising the multiplier to the attempt itself
Exponential_calculate_delay_off_by_one(base_delay, max_delay, multiplier, attempt) ==
    Min(base_delay * Pow(multiplier, attempt), max_delay)

\* ExponentialBackoffStrategy.calculate_delay
Exponential_calculate_delay(base_delay, max_delay, multiplier, attempt) ==
    Min(base_delay * Pow(multiplier, attempt - 1), max_delay)

\* DefaultBackoffCalculator.calculate_delay
Default_calculate_delay(attempt, base_delay) ==
    base_delay * Pow(2, attempt - 1)

\* a delay in fifths of the time unit, in which a fifth of a delay is whole
Fifths(delay) ==
    5 * delay

\* add_jitter with a jitter of up to half the delay
jitter_range_half(delay) ==
    delay \div 2

\* DefaultBackoffCalculator.add_jitter: jitter_range = delay * 0.2, delay in
\* fifths
jitter_range(delay) ==
    delay \div 5

\* DefaultBackoffCalculator.add_jitter: max(0.0, delay + jitter), for the
\* jitter random.uniform drew
add_jitter(delay, jitter) ==
    IF delay + jitter < 0 THEN 0 ELSE delay + jitter

\* the fields of the HealthStatus dataclass
HealthStatusFields ==
    {"component", "is_healthy", "response_time", "error_message",
     "error_details", "metadata", "performance_metrics", "timestamp"}

\* HealthStatus(**kwargs): the dataclass constructor raises TypeError on a
\* keyword that is not one of its fields
HealthStatus(kwargs) ==
    IF DOMAIN kwargs \subseteq HealthStatusFields
    THEN [raised |-> FALSE, ret |-> kwargs]
    ELSE [raised |-> TRUE, ret |-> "TypeError"]

\* what a probe of the client does: its answer, or that it raises
Probes == {"True", "False", "raises"}

\* str(e) of the exception a probe raises
ProbeMessages == {"connection refused", ""}

\* check_connectivity that reports the readiness alone
check_connectivity_ready_only(weaviate_client, is_ready, is_live, message) ==
    IF ~weaviate_client
    THEN HealthStatus([component |-> "weaviate", is_healthy |-> FALSE,
                       error_message |-> "No client configured"])
    ELSE IF is_ready = "raises" \/ is_live = "raises"
    THEN HealthStatus([component |-> "weaviate", is_healthy |-> FALSE,
                       error_message |-> message])
    ELSE HealthStatus([component |-> "weaviate",
                       is_healthy |-> is_ready = "True",
                       metadata |-> [ready |-> is_ready, live |-> is_live]])

\* WeaviateHealthChecker.check_connectivity: weaviate_client tells whether a
\* client is configured, is_ready and is_live what its probes do
check_connectivity(weaviate_client, is_ready, is_live, message) ==
    IF ~weaviate_client
    THEN HealthStatus([component |-> "weaviate", is_healthy |-> FALSE,
                       error_message |-> "No client configured"])
    ELSE IF is_ready = "raises" \/ is_live = "raises"
    THEN HealthStatus([component |-> "weaviate", is_healthy |-> FALSE,
                       error_message |-> message])
    ELSE HealthStatus([component |-> "weaviate",
                       is_healthy |-> is_ready = "True" /\ is_live = "True",
                       metadata |-> [ready |-> is_ready, live |-> is_live]])

\* the names component checks are registered under
ComponentNames == {"weaviate", "api", "cache"}

\* the registered checks: for each name the is_healthy its check_health gives
HealthCheckers ==
    UNION {[names -> BOOLEAN] : names \in SUBSET ComponentNames}

\* HealthAggregator.get_overall_health
get_overall_health(health_checkers) ==
    LET component_statuses ==
            [name \in DOMAIN health_checkers |->
               [component |-> name, is_healthy |-> health_checkers[name]]]
        overall_healthy ==
            \A name \in DOMAIN health_checkers : health_checkers[name]
    IN  HealthStatus(
            [component |-> "system", is_healthy |-> overall_healthy,
             metadata |->
                 [component_count |-> Cardinality(DOMAIN component_statuses)],
             component_statuses |-> component_statuses])

\* the response times of a status, in tenths of the time unit; NoTime is None
ResponseTimes == {NoTime, 0, 3, 5, 6, 10, 12}

\* performance_metrics: None, or a dictionary with cpu_usage and memory_usage
\* (a missing key reads as 0)
PerformanceMetrics ==
    [present : BOOLEAN, cpu_usage : {0, 80, 85}, memory_usage : {0, 85, 90}]

\* score *= factor, the score in thousandths and the factor in tenths
Times(score, factor) ==
    (score * factor) \div 10

\* max(0.0, min(1.0, score)), in thousandths
Clamp(score) ==
    IF score < 0 THEN 0 ELSE IF score > 1000 THEN 1000 ELSE score

\* a health score that takes the worst penalty instead of multiplying them
calculate_health_score_worst_penalty(is_healthy, response_time, performance_metrics) ==
    IF ~is_healthy THEN 0
    ELSE LET f1 == IF response_time # NoTime /\ response_time # 0
                   THEN IF response_time > 10 THEN 5
                        ELSE IF response_time > 5 THEN 8 ELSE 10
                   ELSE 10
             f2 == IF performance_metrics.present
                      /\ performance_metrics.cpu_usage > 80 THEN 7 ELSE 10
             f3 == IF performance_metrics.present
                      /\ performance_metrics.memory_usage > 85 THEN 6 ELSE 10
         IN  Clamp(Times(1000, Min(f1, Min(f2, f3))))

\* HealthStatus.calculate_health_score, the score in thousandths
calculate_health_score(is_healthy, response_time, performance_metrics) ==
    IF ~is_healthy THEN 0
    ELSE LET score0 == 1000
             score1 == IF response_time # NoTime /\ response_time # 0
                       THEN IF response_time > 10 THEN Times(score0, 5)
                            ELSE IF response_time > 5 THEN Times(score0, 8)
                            ELSE score0
                       ELSE score0
             score2 == IF performance_metrics.present
                          /\ performance_metrics.cpu_usage > 80
                       THEN Times(score1, 7) ELSE score1
             score3 == IF performance_metrics.present
                          /\ performance_metrics.memory_usage > 85
                       THEN Times(score2, 6) ELSE score2
         IN  Clamp(score3)

\* a client or handler given to MetricsExporter: not configured, or its call
\* returns, or its call raises
Clients == {"absent", "returns", "raises"}

\* the backends export_to_all exports to, in the order of its calls
Backends == <<"prometheus", "datadog", "cloudwatch">>

\* MetricsExporter.export_to_all: each configured backend's export in turn,
\* none of them inside a try
RECURSIVE export_to_all_from(_, _, _)
export_to_all_from(clients, i, exported) ==
    IF i > Len(Backends)
    THEN [exported |-> exported, forwarded |-> FALSE, failure |-> "none"]
    ELSE IF clients[Backends[i]] = "absent"
    THEN export_to_all_from(clients, i + 1, exported)
    ELSE IF clients[Backends[i]] = "raises"
    THEN [exported |-> exported, forwarded |-> FALSE, failure |-> "backend"]
    ELSE export_to_all_from(clients, i + 1, exported \cup {Backends[i]})

export_to_all(clients) ==
    export_to_all_from(clients, 1, {})

\* MetricsExporter.export_with_fallback: the prometheus export inside a try
\* whose handler calls the fallback handler when one is configured
export_with_fallback(prometheus_client, fallback_handler) ==
    IF prometheus_client = "absent"
    THEN [exported |-> {}, forwarded |-> FALSE, failure |-> "none"]
    ELSE IF prometheus_client = "returns"
    THEN [exported |-> {"prometheus"}, forwarded |-> FALSE, failure |-> "none"]
    ELSE IF fallback_handler = "absent"
    THEN [exported |-> {}, forwarded |-> FALSE, failure |-> "none"]
    ELSE IF fallback_handler = "returns"
    THEN [exported |-> {}, forwarded |-> TRUE, failure |-> "none"]
    ELSE [exported |-> {}, forwarded |-> FALSE, failure |-> "fallback"]

\* the items a batch is made of
Items == 1..MaxItems

\* execute_batch_with_partial_retry before it is called
IdleBatch ==
    [pc |-> "idle", items |-> {}, remaining_items |-> {}, given |-> {},
     total_successes |-> 0, total_failures |-> 0, rounds |-> 0,
     reported |-> {}, returned |-> FALSE, partitioned |-> TRUE]

IdleTask ==
    [pc |-> "idle", attempt |-> 0, last_exception |-> NoFault, calls |-> 0,
     fails |-> 0, outcome |-> None, raised |-> NoFault, rejected |-> FALSE,
     denied |-> FALSE, all_retryable |-> TRUE, op_fault |-> NoFault]

\* WeaviateCircuitBreaker.__init__, FailureThreshold.__init__, TimeWindow.__init__
NewBreaker(state) ==
    [current_state |-> state, current_count |-> 0,
     last_failure_time |-> NoTime, last_state_change |-> 0]

\* the breaker alone, under every configuration of it, driven by direct calls
Init ==
    /\ max_failures \in 1..MaxFailures
    /\ timeout_duration \in 1..MaxTimeout
    /\ error_classifier \in {"none", "default"}
    /\ initial_state \in CircuitBreakerState
    /\ max_attempts = MaxAttempts
    /\ policy_cb = FALSE
    /\ handler_cb = FALSE
    /\ attached = FALSE
    /\ raising = "none"
    /\ notice = NoNotice
    /\ history = NoHistory
    /\ stats = NoStats
    /\ batch = IdleBatch
    /\ fn = NoFn
    /\ breaker = NewBreaker(initial_state)
    /\ now = 0
    /\ last_call = NoCall
    /\ relevant_failures = 0
    /\ task = [c \in Callers |-> IdleTask]

\* a RetryPolicy under every configuration of it, with or without a breaker
InitPolicy ==
    /\ max_failures = 1
    /\ timeout_duration = 1
    /\ error_classifier = "none"
    /\ initial_state \in CircuitBreakerState
    /\ max_attempts \in 1..MaxAttempts
    /\ policy_cb \in BOOLEAN
    /\ handler_cb = FALSE
    /\ attached = FALSE
    /\ raising = "none"
    /\ notice = NoNotice
    /\ history = NoHistory
    /\ stats = NoStats
    /\ batch = IdleBatch
    /\ fn = NoFn
    /\ breaker = NewBreaker(initial_state)
    /\ now = 0
    /\ last_call = NoCall
    /\ relevant_failures = 0
    /\ task = [c \in Callers |-> IdleTask]

\* ---------------------------------------------------------------- actions
\* the clock advances
Tick ==
    /\ now < MaxTime
    /\ now' = now + 1
    /\ UNCHANGED <<cfgvars, history, fn, batch, notice, stats, breaker, last_call, relevant_failures, task>>

\* a caller asks WeaviateCircuitBreaker.should_allow_request()
ShouldAllowRequest ==
    /\ breaker' = should_allow_request(breaker, now)
    /\ last_call' = Call("should_allow_request", None, 0,
                         should_allow_request_ret(breaker, now), FALSE)
    /\ UNCHANGED <<cfgvars, history, fn, batch, notice, stats, now, relevant_failures, task>>

\* a caller reports WeaviateCircuitBreaker.record_failure(error)
RecordFailure(error) ==
    /\ record_failure(breaker, error, now).current_count <= MaxCount
    /\ breaker' = record_failure(breaker, error, now)
    /\ last_call' = Call("record_failure", error.type, 0, FALSE,
                         counts_toward_threshold(error))
    /\ relevant_failures' = relevant_failures + Counted(error)
    /\ UNCHANGED <<cfgvars, history, fn, batch, notice, stats, now, task>>

\* a caller reports WeaviateCircuitBreaker.record_success()
RecordSuccess ==
    /\ breaker' = record_success(breaker, now)
    /\ last_call' = Call("record_success", None, 0, FALSE, FALSE)
    /\ UNCHANGED <<cfgvars, history, fn, batch, notice, stats, now, relevant_failures, task>>

\* a caller asks RetryPolicy.should_retry(attempt, exception)
ShouldRetry(attempt, exception) ==
    /\ breaker' = should_retry(attempt, exception, breaker, now)
    /\ last_call' = Call("should_retry", exception.type, attempt,
                         should_retry_ret(attempt, exception, breaker, now), FALSE)
    /\ UNCHANGED <<cfgvars, history, fn, batch, notice, stats, now, relevant_failures, task>>

Next ==
    \/ Tick
    \/ ShouldAllowRequest
    \/ \E error \in Faults : RecordFailure(error)
    \/ RecordSuccess

Spec == Init /\ [][Next]_vars

NextPolicy ==
    \/ Tick
    \/ ShouldAllowRequest
    \/ \E error \in OpFaults : RecordFailure(error)
    \/ \E attempt \in 1..(MaxAttempts + 1), exception \in Faults :
          ShouldRetry(attempt, exception)

SpecPolicy == InitPolicy /\ [][NextPolicy]_vars

\* a WeaviateRetryHandler used by concurrent callers, who report a success
\* to the breaker themselves
InitRetry ==
    /\ max_failures \in 1..MaxFailures
    /\ timeout_duration = 1
    /\ error_classifier \in {"none", "default"}
    /\ initial_state \in CircuitBreakerState
    /\ max_attempts \in 1..MaxAttempts
    /\ policy_cb \in BOOLEAN
    /\ handler_cb \in BOOLEAN
    /\ attached = FALSE
    /\ raising = "none"
    /\ notice = NoNotice
    /\ history = NoHistory
    /\ stats = NoStats
    /\ batch = IdleBatch
    /\ fn = NoFn
    /\ breaker = NewBreaker(initial_state)
    /\ now = 0
    /\ last_call = NoCall
    /\ relevant_failures = 0
    /\ task = [c \in Callers |-> IdleTask]

\* the handler's run of caller c reaches its next suspension point or its end
Run(c, r) ==
    /\ r.breaker.current_count <= MaxCount
    /\ task' = [task EXCEPT ![c] = r.task]
    /\ breaker' = r.breaker
    /\ relevant_failures' = relevant_failures + r.counted
    /\ UNCHANGED <<cfgvars, history, fn, batch, notice, stats, now, last_call>>

\* caller c calls execute_with_retry(operation): attempt = 1, no last exception
Start(c) ==
    /\ task[c].pc = "idle"
    /\ Run(c, LoopTop([task[c] EXCEPT !.attempt = 1], breaker, now))

\* execute_with_retry reporting the success to the breaker before it returns
OpReturns_records_success(c) ==
    /\ task[c].pc = "op"
    /\ task' = [task EXCEPT ![c].pc = "done", ![c].outcome = "returned"]
    /\ breaker' = IF handler_cb THEN record_success(breaker, now) ELSE breaker
    /\ UNCHANGED <<cfgvars, history, fn, batch, notice, stats, now, last_call, relevant_failures>>

\* the operation awaited by caller c returns: execute_with_retry returns it
OpReturns(c) ==
    /\ task[c].pc = "op"
    /\ task' = [task EXCEPT ![c].pc = "done", ![c].outcome = "returned"]
    /\ UNCHANGED <<cfgvars, history, fn, batch, notice, stats, breaker, now, last_call, relevant_failures>>

\* the except block writing back a failure count it derived from what this
\* caller alone has seen
OpRaises_stale_count(c, e) ==
    /\ task[c].pc = "op"
    /\ Run(c, [HandleException(
                  [task[c] EXCEPT !.fails = @ + 1,
                                  !.all_retryable = @ /\ is_retryable(e),
                                  !.op_fault = e],
                  breaker, e, now)
               EXCEPT !.breaker.current_count = task[c].fails + 1])

\* the operation awaited by caller c raises e
OpRaises(c, e) ==
    /\ task[c].pc = "op"
    /\ Run(c, HandleException(
                 [task[c] EXCEPT !.fails = @ + 1,
                                 !.all_retryable = @ /\ is_retryable(e),
                                 !.op_fault = e],
                 breaker, e, now))

\* caller c, whose call returned, reports the success: record_success()
ReportSuccess(c) ==
    /\ task[c].pc = "done"
    /\ task[c].outcome = "returned"
    /\ task' = [task EXCEPT ![c].pc = "reported"]
    /\ breaker' = record_success(breaker, now)
    /\ UNCHANGED <<cfgvars, history, fn, batch, notice, stats, now, last_call, relevant_failures>>

\* the backoff sleep of caller c ends: attempt += 1 and the loop goes round
Wake(c) ==
    /\ task[c].pc = "sleep"
    /\ Run(c, LoopTop([task[c] EXCEPT !.attempt = @ + 1], breaker, now))

NextRetry ==
    \/ Tick
    \/ \E c \in Callers : Start(c)
    \/ \E c \in Callers : OpReturns(c)
    \/ \E c \in Callers, e \in OpFaults : OpRaises(c, e)
    \/ \E c \in Callers : Wake(c)
    \/ \E c \in Callers : ReportSuccess(c)

SpecRetry == InitRetry /\ [][NextRetry]_vars

\* a handler with a breaker, used by callers who call again and again while
\* the clock goes on for ever
InitProbe ==
    /\ max_failures = 1
    /\ timeout_duration = MaxTimeout
    /\ error_classifier = "default"
    /\ initial_state = CLOSED
    /\ max_attempts = 1
    /\ policy_cb = FALSE
    /\ handler_cb = TRUE
    /\ attached = FALSE
    /\ raising = "none"
    /\ notice = NoNotice
    /\ history = NoHistory
    /\ stats = NoStats
    /\ batch = IdleBatch
    /\ fn = NoFn
    /\ breaker = NewBreaker(initial_state)
    /\ now = 0
    /\ last_call = NoCall
    /\ relevant_failures = 0
    /\ task = [c \in Callers |-> IdleTask]

\* a timestamp one tick further in the past; times more than MaxTime ago are
\* all kept as MaxTime ago, which no comparison with timeout_duration
\* (at most MaxTime) can tell apart
Shift(t) ==
    IF t = NoTime THEN NoTime
    ELSE IF t > 0 THEN t - 1
    ELSE 0

\* the clock goes on without end: once now has reached MaxTime the
\* timestamps move into the past instead
ProbeTick ==
    /\ IF now < MaxTime
       THEN /\ now' = now + 1
            /\ breaker' = breaker
       ELSE /\ now' = now
            /\ breaker' = [breaker EXCEPT !.last_failure_time = Shift(@),
                                          !.last_state_change = Shift(@)]
    /\ UNCHANGED <<cfgvars, history, fn, batch, notice, stats, last_call,
                   relevant_failures, task>>

\* caller c, whose call of execute_with_retry has ended, is ready to call again
Again(c) ==
    /\ task[c].pc = "done"
    /\ task' = [task EXCEPT ![c] = IdleTask]
    /\ UNCHANGED <<cfgvars, history, fn, batch, notice, stats, breaker, now,
                   last_call, relevant_failures>>

\* the operation awaited by caller c ends, by returning or by raising
OpEnds(c) ==
    \/ OpReturns(c)
    \/ \E e \in OpFaults : OpRaises(c, e)

NextProbe ==
    \/ ProbeTick
    \/ \E c \in Callers : Start(c)
    \/ \E c \in Callers : OpReturns(c)
    \/ \E c \in Callers, e \in OpFaults : OpRaises(c, e)
    \/ \E c \in Callers : Again(c)

\* the clock keeps going, every caller keeps calling, and every operation
\* that was started ends
SpecProbe ==
    /\ InitProbe
    /\ [][NextProbe]_vars
    /\ WF_vars(ProbeTick)
    /\ \A c \in Callers : WF_vars(Start(c))
    /\ \A c \in Callers : WF_vars(OpEnds(c))
    /\ \A c \in Callers : WF_vars(Again(c))

\* asyncio.CancelledError, a BaseException: what a cancelled await raises
CancelledFault == [type |-> "CancelledError", msg |-> "cancelled"]

\* a cancellation that the except clause of execute_with_retry catches like
\* a fault of the operation
Cancel_caught(c) ==
    /\ task[c].pc \in {"op", "sleep"}
    /\ Run(c, HandleException(task[c], breaker, CancelledFault, now))

\* the task of caller c is cancelled while it is suspended in the operation
\* or in the backoff sleep: the await raises CancelledError, which no
\* 'except Exception' catches, and execute_with_retry ends with it
Cancel(c) ==
    /\ task[c].pc \in {"op", "sleep"}
    /\ task' = [task EXCEPT ![c].pc = "done", ![c].outcome = "cancelled",
                            ![c].raised = CancelledFault]
    /\ UNCHANGED <<cfgvars, history, fn, batch, notice, stats, breaker, now, last_call, relevant_failures>>

\* callers of a handler with a breaker, any of which may be cancelled
InitCancel ==
    /\ InitRetry
    /\ handler_cb
    /\ error_classifier = "none"

NextCancel ==
    \/ NextRetry
    \/ \E c \in Callers : Cancel(c)

SpecCancel == InitCancel /\ [][NextCancel]_vars

\* a breaker constructed with all its collaborators, one of which may raise
InitObservers ==
    /\ max_failures \in 1..MaxFailures
    /\ timeout_duration = 1
    /\ error_classifier = "default"
    /\ initial_state \in CircuitBreakerState
    /\ max_attempts = MaxAttempts
    /\ policy_cb = FALSE
    /\ handler_cb = FALSE
    /\ attached = TRUE
    /\ raising \in {"none"} \cup Observers
    /\ notice = NoNotice
    /\ history = NoHistory
    /\ stats = NoStats
    /\ batch = IdleBatch
    /\ fn = NoFn
    /\ breaker = NewBreaker(initial_state)
    /\ now = 0
    /\ last_call = NoCall
    /\ relevant_failures = 0
    /\ task = [c \in Callers |-> IdleTask]

\* should_allow_request() on the breaker with collaborators: a collaborator
\* that raises in the transition ends the call without an answer
ObservedShouldAllowRequest ==
    /\ breaker' = should_allow_request(breaker, now)
    /\ notice' = Told(breaker, breaker')
    /\ last_call' = Call("should_allow_request", None, 0,
                         should_allow_request_ret(breaker, now) /\ ~notice'.raised,
                         FALSE)
    /\ history' = Remember(history, breaker, breaker', notice')
    /\ stats' = NoStats
    /\ UNCHANGED <<cfgvars, fn, batch, now, relevant_failures, task>>

\* record_failure(error) on the breaker with collaborators
ObservedRecordFailure(error) ==
    /\ record_failure_observed(breaker, error, now).breaker.current_count <= MaxCount
    /\ breaker' = record_failure_observed(breaker, error, now).breaker
    /\ notice' = record_failure_observed(breaker, error, now).notice
    /\ last_call' = Call("record_failure", error.type, 0, FALSE,
                         counts_toward_threshold(error))
    /\ relevant_failures' = relevant_failures + Counted(error)
    /\ history' = Remember(history, breaker, breaker', notice')
    /\ stats' = NoStats
    /\ UNCHANGED <<cfgvars, fn, batch, now, task>>

\* record_success() on the breaker with collaborators
ObservedRecordSuccess ==
    /\ breaker' = record_success(breaker, now)
    /\ notice' = Told(breaker, breaker')
    /\ last_call' = Call("record_success", None, 0, FALSE, FALSE)
    /\ history' = Remember(history, breaker, breaker', notice')
    /\ stats' = NoStats
    /\ UNCHANGED <<cfgvars, fn, batch, now, relevant_failures, task>>

\* get_circuit_stats() that first brings the state up to date
GetCircuitStats_refreshing ==
    /\ breaker' = should_allow_request(breaker, now)
    /\ stats' = get_circuit_stats(breaker')
    /\ notice' = NoNotice
    /\ last_call' = Call("get_circuit_stats", None, 0, FALSE, FALSE)
    /\ UNCHANGED <<cfgvars, history, fn, batch, now, relevant_failures, task>>

\* get_circuit_stats() on the breaker
GetCircuitStats ==
    /\ stats' = get_circuit_stats(breaker)
    /\ notice' = NoNotice
    /\ last_call' = Call("get_circuit_stats", None, 0, FALSE, FALSE)
    /\ UNCHANGED <<cfgvars, history, fn, batch, breaker, now, relevant_failures, task>>

\* ComponentHealth.check_with_circuit_breaker() of a health check given the
\* breaker: healthy exactly if the statistics say CLOSED
CheckWithCircuitBreaker ==
    /\ stats' = get_circuit_stats(breaker)
    /\ notice' = NoNotice
    /\ last_call' = Call("check_with_circuit_breaker", None, 0,
                         get_circuit_stats(breaker).state = "CLOSED", FALSE)
    /\ UNCHANGED <<cfgvars, history, fn, batch, breaker, now, relevant_failures, task>>

NextObservers ==
    \/ Tick
    \/ ObservedShouldAllowRequest
    \/ \E error \in OpFaults : ObservedRecordFailure(error)
    \/ ObservedRecordSuccess
    \/ GetCircuitStats
    \/ CheckWithCircuitBreaker

SpecObservers == InitObservers /\ [][NextObservers]_vars

\* a handler with a policy and no breaker, given a batch
InitBatch ==
    /\ max_failures = 1
    /\ timeout_duration = 1
    /\ error_classifier = "none"
    /\ initial_state = CLOSED
    /\ max_attempts \in 1..MaxAttempts
    /\ policy_cb = FALSE
    /\ handler_cb = FALSE
    /\ attached = FALSE
    /\ raising = "none"
    /\ notice = NoNotice
    /\ history = NoHistory
    /\ stats = NoStats
    /\ batch = IdleBatch
    /\ fn = NoFn
    /\ breaker = NewBreaker(initial_state)
    /\ now = 0
    /\ last_call = NoCall
    /\ relevant_failures = 0
    /\ task = [c \in Callers |-> IdleTask]

\* execute_batch_with_partial_retry at 'while remaining_items:' with bt: the
\* operation is called with the remaining items, or the totals are returned
BatchLoop(bt) ==
    IF bt.remaining_items = {}
    THEN [bt EXCEPT !.pc = "done"]
    ELSE [bt EXCEPT !.pc = "op", !.given = bt.remaining_items,
                    !.rounds = @ + 1]

\* execute_batch_with_partial_retry(operation, batch_items) is called
BatchStart(batch_items) ==
    /\ batch.pc = "idle"
    /\ batch' = BatchLoop([batch EXCEPT !.items = batch_items,
                                        !.remaining_items = batch_items])
    /\ UNCHANGED <<cfgvars, history, fn, breaker, now, last_call, relevant_failures,
                   notice, stats, task>>

\* a round that goes on with all the items it was given
BatchOpReturns_keeps_given(successes, failures) ==
    /\ batch.pc = "op"
    /\ batch.rounds < MaxRounds
    /\ batch' = BatchLoop(
         [batch EXCEPT
            !.total_successes = @ + Cardinality(successes),
            !.remaining_items = IF failures = {} THEN {} ELSE batch.given,
            !.reported = failures,
            !.returned = TRUE,
            !.partitioned = @ /\ successes \cup failures = batch.given
                              /\ successes \cap failures = {}])
    /\ UNCHANGED <<cfgvars, history, fn, breaker, now, last_call, relevant_failures,
                   notice, stats, task>>

\* the operation returns its result: the successes are added up and the
\* failures are what remains
BatchOpReturns(successes, failures) ==
    /\ batch.pc = "op"
    /\ batch.rounds < MaxRounds
    /\ batch' = BatchLoop(
         [batch EXCEPT
            !.total_successes = @ + Cardinality(successes),
            !.remaining_items = failures,
            !.reported = failures,
            !.returned = TRUE,
            !.partitioned = @ /\ successes \cup failures = batch.given
                              /\ successes \cap failures = {}])
    /\ UNCHANGED <<cfgvars, history, fn, breaker, now, last_call, relevant_failures,
                   notice, stats, task>>

\* the operation raises e: the policy is asked about attempt 1, and the run
\* ends with the remaining items as failures or sleeps
BatchOpRaises(e) ==
    /\ batch.pc = "op"
    /\ batch' = IF should_retry_ret(1, e, breaker, now)
                THEN [batch EXCEPT !.pc = "sleep", !.returned = FALSE]
                ELSE [batch EXCEPT
                        !.pc = "done", !.returned = FALSE,
                        !.total_failures = @ + Cardinality(batch.remaining_items)]
    /\ breaker' = should_retry(1, e, breaker, now)
    /\ UNCHANGED <<cfgvars, history, fn, now, last_call, relevant_failures,
                   notice, stats, task>>

\* the sleep after a fault ends and the loop goes round
BatchWake ==
    /\ batch.pc = "sleep"
    /\ batch.rounds < MaxRounds
    /\ batch' = BatchLoop(batch)
    /\ UNCHANGED <<cfgvars, history, fn, breaker, now, last_call, relevant_failures,
                   notice, stats, task>>

NextBatch ==
    \/ \E batch_items \in SUBSET Items : BatchStart(batch_items)
    \/ \E successes \in SUBSET Items, failures \in SUBSET Items :
          BatchOpReturns(successes, failures)
    \/ \E e \in OpFaults : BatchOpRaises(e)
    \/ BatchWake

SpecBatch == InitBatch /\ [][NextBatch]_vars

\* the classifier, the backoff strategies and the health checks, each called
\* once on arguments of its own
InitFunctions ==
    /\ max_failures = 1
    /\ timeout_duration = 1
    /\ error_classifier = "none"
    /\ initial_state = CLOSED
    /\ max_attempts = MaxAttempts
    /\ policy_cb = FALSE
    /\ handler_cb = FALSE
    /\ attached = FALSE
    /\ raising = "none"
    /\ notice = NoNotice
    /\ history = NoHistory
    /\ stats = NoStats
    /\ batch = IdleBatch
    /\ fn = NoFn
    /\ breaker = NewBreaker(initial_state)
    /\ now = 0
    /\ last_call = NoCall
    /\ relevant_failures = 0
    /\ task = [c \in Callers |-> IdleTask]

\* ErrorClassifier.is_retryable(exception)
IsRetryable(exception) ==
    /\ fn = NoFn
    /\ fn' = [op |-> "is_retryable", arg |-> exception,
              ret |-> ErrorClassifier_is_retryable(exception), raised |-> FALSE]
    /\ UNCHANGED <<cfgvars, history, batch, breaker, now, last_call, relevant_failures,
                   notice, stats, task>>

\* ExponentialBackoffStrategy(base_delay, max_delay, multiplier) asked for the
\* delay of every attempt
ExponentialDelays(base_delay, max_delay, multiplier) ==
    /\ fn = NoFn
    /\ fn' = [op |-> "exponential_backoff",
              arg |-> [base_delay |-> base_delay, max_delay |-> max_delay,
                       multiplier |-> multiplier],
              ret |-> [attempt \in Attempts |->
                         Exponential_calculate_delay(base_delay, max_delay,
                                                     multiplier, attempt)],
              raised |-> FALSE]
    /\ UNCHANGED <<cfgvars, history, batch, breaker, now, last_call, relevant_failures,
                   notice, stats, task>>

\* RetryPolicy(base_delay).calculate_delay(attempt) with the default backoff
\* calculator, for a jitter within the range random.uniform draws from
CalculateDelay(base_delay, attempt, jitter) ==
    LET delay == Fifths(Default_calculate_delay(attempt, base_delay))
    IN  /\ fn = NoFn
        /\ jitter \in (0 - jitter_range(delay))..jitter_range(delay)
        /\ fn' = [op |-> "calculate_delay",
                  arg |-> [base_delay |-> base_delay, attempt |-> attempt],
                  ret |-> add_jitter(delay, jitter), raised |-> FALSE]
        /\ UNCHANGED <<cfgvars, history, batch, breaker, now, last_call,
                       relevant_failures, notice, stats, task>>

\* WeaviateHealthChecker.check_connectivity()
CheckConnectivity(weaviate_client, is_ready, is_live, message) ==
    LET status == check_connectivity(weaviate_client, is_ready, is_live, message)
    IN  /\ fn = NoFn
        /\ fn' = [op |-> "check_connectivity",
                  arg |-> [weaviate_client |-> weaviate_client,
                           is_ready |-> is_ready, is_live |-> is_live],
                  ret |-> status.ret, raised |-> status.raised]
        /\ UNCHANGED <<cfgvars, history, batch, breaker, now, last_call,
                       relevant_failures, notice, stats, task>>

\* HealthAggregator(health_checkers).get_overall_health()
GetOverallHealth(health_checkers) ==
    LET status == get_overall_health(health_checkers)
    IN  /\ fn = NoFn
        /\ fn' = [op |-> "get_overall_health", arg |-> health_checkers,
                  ret |-> status.ret, raised |-> status.raised]
        /\ UNCHANGED <<cfgvars, history, batch, breaker, now, last_call,
                       relevant_failures, notice, stats, task>>

\* HealthStatus(...).calculate_health_score()
CalculateHealthScore(is_healthy, response_time, performance_metrics) ==
    /\ fn = NoFn
    /\ fn' = [op |-> "calculate_health_score",
              arg |-> [is_healthy |-> is_healthy,
                       response_time |-> response_time,
                       performance_metrics |-> performance_metrics],
              ret |-> calculate_health_score(is_healthy, response_time,
                                             performance_metrics),
              raised |-> FALSE]
    /\ UNCHANGED <<cfgvars, history, batch, breaker, now, last_call, relevant_failures,
                   notice, stats, task>>

\* MetricsExporter(prometheus_client, datadog_client, cloudwatch_client,
\* fallback_handler).export_to_all(metrics_data)
ExportToAll(clients, fallback_handler) ==
    /\ fn = NoFn
    /\ LET r == export_to_all(clients)
       IN  fn' = [op |-> "export_to_all",
                  arg |-> [clients |-> clients,
                           fallback_handler |-> fallback_handler],
                  ret |-> r,
                  raised |-> r.failure # "none"]
    /\ UNCHANGED <<cfgvars, history, batch, breaker, now, last_call, relevant_failures,
                   notice, stats, task>>

\* MetricsExporter(prometheus_client, fallback_handler=...)
\* .export_with_fallback(metrics_data)
ExportWithFallback(clients, fallback_handler) ==
    /\ fn = NoFn
    /\ LET r == export_with_fallback(clients["prometheus"], fallback_handler)
       IN  fn' = [op |-> "export_with_fallback",
                  arg |-> [clients |-> clients,
                           fallback_handler |-> fallback_handler],
                  ret |-> r,
                  raised |-> r.failure # "none"]
    /\ UNCHANGED <<cfgvars, history, batch, breaker, now, last_call, relevant_failures,
                   notice, stats, task>>

NextFunctions ==
    \/ \E exception \in Exceptions : IsRetryable(exception)
    \/ \E base_delay \in 0..MaxBase, max_delay \in 1..MaxDelay,
          multiplier \in 0..MaxMultiplier :
          ExponentialDelays(base_delay, max_delay, multiplier)
    \/ \E base_delay \in 0..MaxBase, attempt \in Attempts,
          jitter \in (0 - Fifths(MaxBase * Pow(2, MaxAttempts)))
                     ..Fifths(MaxBase * Pow(2, MaxAttempts)) :
          CalculateDelay(base_delay, attempt, jitter)
    \/ \E weaviate_client \in BOOLEAN, is_ready \in Probes, is_live \in Probes,
          message \in ProbeMessages :
          CheckConnectivity(weaviate_client, is_ready, is_live, message)
    \/ \E health_checkers \in HealthCheckers : GetOverallHealth(health_checkers)
    \/ \E is_healthy \in BOOLEAN, response_time \in ResponseTimes,
          performance_metrics \in PerformanceMetrics :
          CalculateHealthScore(is_healthy, response_time, performance_metrics)
    \/ \E clients \in [{"prometheus", "datadog", "cloudwatch"} -> Clients],
          fallback_handler \in Clients :
          \/ ExportToAll(clients, fallback_handler)
          \/ ExportWithFallback(clients, fallback_handler)

SpecFunctions == InitFunctions /\ [][NextFunctions]_vars

\* ---------------------------------------------------------------- claims
\* the timeout had elapsed when the last call was made: no failure was ever
\* recorded, or at least timeout_duration has passed since the last one
LastCallElapsed ==
    \/ last_call.elapsed = NoTime
    \/ last_call.elapsed >= timeout_duration

\* C1: a breaker that starts CLOSED with count 0 is still CLOSED after fewer
\* than max_failures circuit-relevant failures and is OPEN right after the
\* max_failures-th one, whatever other calls are interleaved.
C1_OpensAtExactlyN ==
    initial_state = CLOSED =>
        /\ relevant_failures < max_failures => breaker.current_state = CLOSED
        /\ ( /\ last_call.op = "record_failure"
             /\ last_call.relevant
             /\ relevant_failures = max_failures )
           => breaker.current_state = OPEN

C1_Witness ==
    /\ initial_state = CLOSED
    /\ max_failures = 2
    /\ relevant_failures = 2
    /\ last_call.op = "record_failure"
    /\ last_call.relevant
    /\ last_call.from = CLOSED
    /\ breaker.current_state = OPEN

\* C2: should_allow_request() on an OPEN breaker answers false and stays OPEN
\* while less than timeout_duration has passed since the last failure, and
\* answers true and moves to HALF_OPEN once it has (or none was recorded).
C2_OpenTimeout ==
    (last_call.op = "should_allow_request" /\ last_call.from = OPEN) =>
        IF LastCallElapsed
        THEN last_call.ret = TRUE /\ breaker.current_state = HALF_OPEN
        ELSE last_call.ret = FALSE /\ breaker.current_state = OPEN

C2_Witness ==
    /\ last_call.op = "should_allow_request"
    /\ last_call.from = OPEN
    /\ last_call.elapsed = timeout_duration
    /\ last_call.ret = TRUE
    /\ breaker.current_state = HALF_OPEN

\* C3: one record_success() in HALF_OPEN sets the failure count to 0 and the
\* state to CLOSED, whatever the count was.
C3_HalfOpenSuccessCloses ==
    (last_call.op = "record_success" /\ last_call.from = HALF_OPEN) =>
        /\ breaker.current_state = CLOSED
        /\ breaker.current_count = 0

C3_Witness ==
    /\ last_call.op = "record_success"
    /\ last_call.from = HALF_OPEN
    /\ last_call.count >= 2
    /\ breaker.current_state = CLOSED
    /\ breaker.current_count = 0

\* C4: one record_failure() in HALF_OPEN sets the state to OPEN whatever the
\* failure count was, and the count is not reset by it.
C4_HalfOpenFailureReopens ==
    (last_call.op = "record_failure" /\ last_call.from = HALF_OPEN) =>
        /\ breaker.current_state = OPEN
        /\ breaker.current_count >= last_call.count
        /\ breaker.current_count =
              last_call.count + (IF last_call.relevant THEN 1 ELSE 0)

C4_Witness ==
    /\ last_call.op = "record_failure"
    /\ last_call.from = HALF_OPEN
    /\ last_call.count < max_failures
    /\ breaker.current_count < max_failures
    /\ breaker.current_state = OPEN

\* C5 as stated: a fault the classifier deems irrelevant changes neither the
\* failure count nor the state, in every state of the breaker.
C5_IrrelevantNeverTransitions ==
    (last_call.op = "record_failure" /\ ~last_call.relevant) =>
        /\ breaker.current_count = last_call.count
        /\ breaker.current_state = last_call.from

\* C5 amended: an irrelevant fault never changes the failure count and leaves
\* a CLOSED or OPEN breaker in its state, but a HALF_OPEN breaker still
\* re-opens on it.
C5_IrrelevantNotCounted ==
    (last_call.op = "record_failure" /\ ~last_call.relevant) =>
        /\ breaker.current_count = last_call.count
        /\ last_call.from \in {CLOSED, OPEN} =>
              breaker.current_state = last_call.from
        /\ last_call.from = HALF_OPEN => breaker.current_state = OPEN

C5_Witness ==
    /\ last_call.op = "record_failure"
    /\ ~last_call.relevant
    /\ last_call.from = HALF_OPEN
    /\ last_call.count >= 1
    /\ breaker.current_count = last_call.count
    /\ breaker.current_state = OPEN

\* C6: the failure count is never negative, goes up only by 1 and only in a
\* record_failure call with a counted fault, and goes down only to 0 and only
\* in the HALF_OPEN to CLOSED step of record_success, which always zeroes it.
C6_CountSteps ==
    /\ [](breaker.current_count >= 0)
    /\ [][ /\ breaker'.current_count > breaker.current_count =>
                /\ breaker'.current_count = breaker.current_count + 1
                /\ last_call'.op = "record_failure"
                /\ last_call'.relevant
           /\ breaker'.current_count < breaker.current_count =>
                /\ breaker'.current_count = 0
                /\ last_call'.op = "record_success"
                /\ breaker.current_state = HALF_OPEN
                /\ breaker'.current_state = CLOSED
           /\ (breaker.current_state = HALF_OPEN /\ breaker'.current_state = CLOSED)
                => breaker'.current_count = 0
           /\ (last_call'.op = "record_failure" /\ last_call'.relevant
                  /\ last_call' # last_call)
                => breaker'.current_count = breaker.current_count + 1
         ]_vars

C6_Witness ==
    /\ breaker.current_state = CLOSED
    /\ breaker.current_count = 1
    /\ relevant_failures = 3
    /\ last_call.op = "record_failure"

\* C9: should_retry(attempt, fault) is false when attempt >= max_attempts,
\* false for a fault that is not retryable, false when an attached breaker
\* rejects the request, and true in every other case.
C9_ShouldRetry ==
    last_call.op = "should_retry" =>
        last_call.ret =
            ( /\ last_call.attempt < max_attempts
              /\ last_call.type # "WeaviatePermanentError"
              /\ policy_cb => ~(last_call.from = OPEN /\ ~LastCallElapsed) )

C9_Witness ==
    /\ last_call.op = "should_retry"
    /\ max_attempts = 3
    /\ last_call.attempt = 3
    /\ last_call.type = "WeaviateConnectionError"
    /\ last_call.ret = FALSE

\* the breaker is OPEN and less than timeout_duration has passed since the
\* last recorded failure
OpenAndWaiting(b, t) ==
    /\ b.current_state = OPEN
    /\ b.last_failure_time # NoTime
    /\ t - b.last_failure_time < timeout_duration

\* C7: with a breaker attached to the handler, no caller's operation is
\* started in a round whose should_allow_request() answered false, and none
\* is started while the breaker is OPEN with its timeout not elapsed.
C7_NoInvocationWhileOpen ==
    /\ [](\A c \in Callers : task[c].pc = "op" => ~task[c].rejected)
    /\ [][\A c \in Callers :
            (handler_cb /\ task[c].pc # "op" /\ task'[c].pc = "op") =>
                /\ ~OpenAndWaiting(breaker, now)
                /\ breaker'.current_state # OPEN
         ]_vars

C7_Witness ==
    /\ handler_cb
    /\ task["c1"].pc = "op"
    /\ task["c1"].attempt = 1
    /\ task["c2"].pc = "done"
    /\ task["c2"].rejected
    /\ breaker.current_state = OPEN

\* C8: once should_allow_request() has answered false in a round, the call
\* has ended by raising: there is no backoff sleep and no further attempt.
C8_RejectionEndsCall ==
    \A c \in Callers :
        task[c].rejected =>
            /\ task[c].pc = "done"
            /\ task[c].outcome = "raised"

\* C10: while the breaker denies nothing and every fault is retryable, the
\* call gives up only after max_attempts failed invocations, and a call that
\* returns after k failures has invoked the operation exactly k + 1 times.
C10_SucceedsAfterKFailures ==
    \A c \in Callers :
        (~task[c].denied /\ task[c].all_retryable) =>
            /\ task[c].outcome = "raised" => task[c].fails >= max_attempts
            /\ task[c].outcome = "returned" =>
                  /\ task[c].fails < max_attempts
                  /\ task[c].calls = task[c].fails + 1
                  /\ task[c].attempt = task[c].calls

C10_Witness ==
    /\ handler_cb
    /\ max_attempts = 3
    /\ task["c1"].outcome = "returned"
    /\ task["c1"].fails = 2
    /\ task["c1"].calls = 3
    /\ ~task["c1"].denied

\* C11: a call of execute_with_retry never goes beyond round max_attempts and
\* never invokes the operation more than max_attempts times: a failure in
\* round max_attempts ends the call instead of leading to a backoff sleep.
C11_AtMostMaxAttemptsRounds ==
    \A c \in Callers :
        /\ task[c].attempt <= max_attempts
        /\ task[c].calls <= task[c].attempt
        /\ task[c].calls <= max_attempts
        /\ task[c].pc = "sleep" => task[c].attempt < max_attempts

C11_Witness ==
    /\ max_attempts = 3
    /\ task["c1"].pc = "done"
    /\ task["c1"].outcome = "raised"
    /\ task["c1"].attempt = 3
    /\ task["c1"].calls = 3
    /\ task["c1"].raised.type = "WeaviateConnectionError"

\* C12: a call that has ended has returned or raised a fault, and the fault
\* it raised after invoking the operation at least once is the fault of the
\* most recent invocation; with no invocation at all it is the fresh
\* "Circuit breaker open" fault.
C12_NeverSwallows ==
    \A c \in Callers :
        task[c].pc \in {"done", "reported"} =>
            /\ task[c].outcome \in {"returned", "raised"}
            /\ task[c].outcome = "returned" =>
                  (task[c].raised = NoFault /\ task[c].calls = task[c].fails + 1)
            /\ task[c].outcome = "raised" =>
                  /\ task[c].raised # NoFault
                  /\ task[c].calls = task[c].fails
                  /\ task[c].calls > 0 => task[c].raised = task[c].op_fault
                  /\ task[c].calls = 0 => task[c].raised = CircuitOpenFault

C12_Witness ==
    /\ task["c1"].pc = "done"
    /\ task["c1"].outcome = "raised"
    /\ task["c1"].fails = 2
    /\ ~task["c1"].rejected
    /\ task["c1"].raised.type = "WeaviatePermanentError"
    /\ task["c1"].raised = task["c1"].op_fault

\* C13: a call that ended on a rejection by the breaker raised a fault of the
\* class WeaviateCircuitBreakerError.
C13_RejectionRaisesCircuitOpen ==
    \A c \in Callers :
        (task[c].pc = "done" /\ task[c].rejected) =>
            task[c].raised.type = "WeaviateCircuitBreakerError"

\* C14: should_retry answers false for a WeaviateCircuitBreakerError at every
\* attempt number.
C14_CircuitOpenNeverRetried ==
    (last_call.op = "should_retry"
       /\ last_call.type = "WeaviateCircuitBreakerError") =>
        last_call.ret = FALSE

\* C15: with no classifier wired into the threshold, a fault given to
\* record_failure raises the failure count exactly when it is of a Retryable
\* class, so a WeaviatePermanentError never does.
C15_DefaultWiringCountsRetryableOnly ==
    (error_classifier = "none" /\ last_call.op = "record_failure") =>
        breaker.current_count =
            last_call.count +
              (IF last_call.type \in {"WeaviateConnectionError", "WeaviateTimeoutError",
                                      "WeaviateBatchError"}
               THEN 1 ELSE 0)

\* C16: the step in which execute_with_retry returns the operation's value
\* leaves the breaker as it is, and the breaker goes from HALF_OPEN to CLOSED
\* only in a step where a caller reports the success itself.
C16_SuccessResetsNothing ==
    [][ /\ \A c \in Callers :
              (task[c].pc = "op" /\ task'[c].outcome = "returned") =>
                  breaker' = breaker
        /\ (breaker.current_state = HALF_OPEN /\ breaker'.current_state = CLOSED) =>
              \E c \in Callers :
                  task[c].pc = "done" /\ task'[c].pc = "reported"
      ]_vars

C16_Witness ==
    /\ handler_cb
    /\ task["c1"].pc = "done"
    /\ task["c1"].outcome = "returned"
    /\ task["c2"].pc = "idle"
    /\ breaker.current_state = HALF_OPEN
    /\ breaker.current_count >= 1

\* C17: when a collaborator raises while it is told of a transition, the
\* breaker is in the target state and, from OPEN to HALF_OPEN, the call still
\* answers true.
C17_ObserverFailureKeepsTransition ==
    (notice.raised /\ notice.to # None) =>
        /\ breaker.current_state = notice.to
        /\ last_call.op = "should_allow_request" => last_call.ret = TRUE

\* C18: when the metrics collector raises during record_failure, the fault is
\* still counted and the transition that is due still happens in that call.
C18_MetricsFailureKeepsRecordFailure ==
    (raising = "metrics" /\ last_call.op = "record_failure") =>
        /\ breaker.current_count =
              last_call.count + (IF last_call.relevant THEN 1 ELSE 0)
        /\ (last_call.from = CLOSED /\ breaker.current_count >= max_failures)
              => breaker.current_state = OPEN
        /\ last_call.from = HALF_OPEN => breaker.current_state = OPEN

\* what every transition tells the collaborators, as the claim has it: each
\* of the five is called once
ToldAll(n) ==
    \A o \in Observers : n.calls[o] = 1

\* what every transition tells the collaborators, as the code has it
ToldAsCoded(n) ==
    /\ n.calls["publisher"] = 1
    /\ n.calls["metrics"] = 0
    /\ \A o \in Observers : n.calls[o] <= 1
    /\ n.calls["alerting"] = 1 => n.to = OPEN
    /\ ~n.raised =>
          /\ n.calls["swarm"] = 1
          /\ n.calls["lb"] = 1
          /\ n.calls["alerting"] = (IF n.to = OPEN THEN 1 ELSE 0)
    /\ n.raised =>
          \A i, j \in 1..4 :
              (NotifyOrder[i] = raising /\ i < j) => n.calls[NotifyOrder[j]] = 0

ReadOps == {"get_circuit_stats", "check_with_circuit_breaker"}

\* C20: get_circuit_stats() and check_with_circuit_breaker() return the
\* breaker's circuit_id, state, failure count, last state change and protected
\* endpoint as they are and change none of the state, the failure count and
\* the timestamps, also when the breaker is OPEN and its timeout has elapsed;
\* the health check is healthy exactly if the state is CLOSED.
C20_StatsArePureReads ==
    [][last_call'.op \in ReadOps =>
          /\ breaker' = breaker
          /\ stats'.circuit_id = CircuitId
          /\ stats'.protected_endpoint = ProtectedEndpoint
          /\ stats'.state = breaker.current_state
          /\ stats'.failure_count = breaker.current_count
          /\ stats'.last_state_change = breaker.last_state_change
          /\ last_call'.op = "check_with_circuit_breaker" =>
                last_call'.ret = (breaker.current_state = CLOSED)
      ]_vars

C20_Witness ==
    /\ last_call.op = "check_with_circuit_breaker"
    /\ last_call.from = OPEN
    /\ last_call.elapsed # NoTime
    /\ last_call.elapsed >= timeout_duration
    /\ last_call.ret = FALSE
    /\ breaker.current_state = OPEN
    /\ stats.state = OPEN
    /\ stats.failure_count >= 1

\* C21: a cancellation during the operation call or the backoff sleep ends
\* execute_with_retry with the cancellation fault, not the operation's last
\* fault: no further attempt follows and the breaker records nothing.
C21_CancellationPropagates ==
    [][\A c \in Callers :
          /\ (task[c].outcome # "cancelled" /\ task'[c].outcome = "cancelled") =>
                /\ breaker' = breaker
                /\ relevant_failures' = relevant_failures
                /\ task'[c].pc = "done"
                /\ task'[c].raised = CancelledFault
                /\ task'[c].calls = task[c].calls
                /\ task'[c].fails = task[c].fails
          /\ task[c].outcome = "cancelled" => task'[c] = task[c]
          /\ task'[c].last_exception # CancelledFault
          /\ task'[c].raised = CancelledFault => task'[c].outcome = "cancelled"
      ]_vars

C21_Witness ==
    /\ task["c1"].pc = "done"
    /\ task["c1"].outcome = "cancelled"
    /\ task["c1"].raised = CancelledFault
    /\ task["c1"].fails = 1
    /\ task["c1"].calls = 1
    /\ task["c1"].last_exception.type = "WeaviateConnectionError"
    /\ breaker.current_count = 1

\* C22: with callers suspending only at the operation call and the backoff
\* sleep, every step raises the failure count by exactly the number of
\* circuit-relevant failures recorded in it (or resets it to 0 when a success
\* closes a HALF_OPEN breaker), and what a caller finds is never a half-made
\* transition: a changed state comes with its change time, and a CLOSED
\* breaker is below its threshold.
C22_NoLostUpdate ==
    [][/\ breaker'.current_count =
            IF breaker.current_state = HALF_OPEN /\ breaker'.current_state = CLOSED
            THEN 0
            ELSE breaker.current_count + (relevant_failures' - relevant_failures)
       /\ breaker'.current_state # breaker.current_state =>
            breaker'.last_state_change = now
       /\ breaker'.current_state = CLOSED =>
            breaker'.current_count < max_failures
      ]_vars

C22_Witness ==
    /\ handler_cb
    /\ task["c1"].pc = "sleep"
    /\ task["c2"].pc = "sleep"
    /\ task["c1"].fails = 1
    /\ task["c2"].fails = 1
    /\ ~task["c1"].rejected
    /\ ~task["c2"].rejected
    /\ relevant_failures = 2
    /\ breaker.current_count = 2

C24_BatchTotalsAddUp ==
    /\ (batch.pc = "op" /\ batch.returned) => batch.given = batch.reported
    /\ (batch.pc = "done" /\ batch.partitioned) =>
          batch.total_successes + batch.total_failures = Cardinality(batch.items)

C24_Witness ==
    /\ batch.pc = "done"
    /\ batch.partitioned
    /\ batch.items = Items
    /\ batch.rounds = 2
    /\ batch.given = {1}
    /\ batch.total_successes = MaxItems - 1
    /\ batch.total_failures = 1

\* C25: execute_batch_with_partial_retry calls the operation in at most
\* max_attempts rounds.
C25_BatchRoundsBounded ==
    batch.rounds <= max_attempts

C27_ExponentialDelay ==
    fn.op = "exponential_backoff" =>
        /\ \A a \in Attempts :
              LET full == fn.arg.base_delay * Pow(fn.arg.multiplier, a - 1)
              IN  /\ fn.ret[a] <= fn.arg.max_delay
                  /\ fn.ret[a] <= full
                  /\ fn.ret[a] = full \/ fn.ret[a] = fn.arg.max_delay
        /\ fn.arg.multiplier >= 1 =>
              \A a \in Attempts \ {1} : fn.ret[a - 1] <= fn.ret[a]
        /\ (fn.arg.base_delay = 1 /\ fn.arg.multiplier = 2
              /\ fn.arg.max_delay = 100) =>
              /\ fn.ret[1] = 1
              /\ fn.ret[2] = 2
              /\ fn.ret[3] = 4
              /\ fn.ret[4] = 8

C27_Witness ==
    /\ fn.op = "exponential_backoff"
    /\ fn.arg.base_delay = 3
    /\ fn.arg.multiplier = 2
    /\ fn.arg.max_delay = 10
    /\ fn.ret[1] = 3
    /\ fn.ret[2] = 6
    /\ fn.ret[3] = 10
    /\ fn.ret[4] = 10

\* C28: the policy's delay for an attempt, the backoff delay d with jitter,
\* lies between 0.8*d and 1.2*d and is never negative (in fifths of the time
\* unit: between 4*d and 6*d).
C28_JitterWithinFifth ==
    fn.op = "calculate_delay" =>
        LET d == fn.arg.base_delay * Pow(2, fn.arg.attempt - 1)
        IN  /\ fn.ret >= 0
            /\ 4 * d <= fn.ret
            /\ fn.ret <= 6 * d

C28_Witness ==
    /\ fn.op = "calculate_delay"
    /\ fn.arg.base_delay = 1
    /\ fn.arg.attempt = 3
    /\ fn.ret = 16

\* C29: check_connectivity() never raises; with a client whose probes answer
\* it is healthy exactly if the client is both ready and live and carries both
\* answers in its metadata; without a client, or when a probe raises, it is
\* unhealthy and carries an error message.
C29_ConnectivityIsReadyAndLive ==
    fn.op = "check_connectivity" =>
        LET answered == /\ fn.arg.weaviate_client
                        /\ fn.arg.is_ready # "raises"
                        /\ fn.arg.is_live # "raises"
        IN  /\ ~fn.raised
            /\ answered =>
                  /\ fn.ret.is_healthy =
                       (fn.arg.is_ready = "True" /\ fn.arg.is_live = "True")
                  /\ "metadata" \in DOMAIN fn.ret
                  /\ fn.ret.metadata.ready = fn.arg.is_ready
                  /\ fn.ret.metadata.live = fn.arg.is_live
            /\ ~answered =>
                  /\ fn.ret.is_healthy = FALSE
                  /\ "error_message" \in DOMAIN fn.ret

C29_Witness ==
    /\ fn.op = "check_connectivity"
    /\ fn.arg.weaviate_client
    /\ fn.arg.is_ready = "True"
    /\ fn.arg.is_live = "False"
    /\ ~fn.raised
    /\ fn.ret.is_healthy = FALSE
    /\ fn.ret.metadata = [ready |-> "True", live |-> "False"]

\* C30: get_overall_health() returns a status that is healthy exactly if
\* every registered check is, with one component status per registered check.
C30_OverallHealthIsAnd ==
    fn.op = "get_overall_health" =>
        /\ ~fn.raised
        /\ fn.ret.is_healthy = (\A name \in DOMAIN fn.arg : fn.arg[name])
        /\ DOMAIN fn.ret.component_statuses = DOMAIN fn.arg

\* C31: the health score is 0 for an unhealthy status and else the product
\* of the penalties that apply (response time over 1.0: 0.5, else over 0.5:
\* 0.8; cpu_usage over 80: 0.7; memory_usage over 85: 0.6), always within
\* [0, 1]; response time 1.2 with cpu_usage 85 gives 0.35. Scores are in
\* thousandths, response times in tenths.
C31_HealthScoreCompounds ==
    fn.op = "calculate_health_score" =>
        LET a == fn.arg
            m == a.performance_metrics
            slow == IF a.response_time > 10 THEN 5
                    ELSE IF a.response_time > 5 THEN 8 ELSE 10
            cpu == IF m.present /\ m.cpu_usage > 80 THEN 7 ELSE 10
            memory == IF m.present /\ m.memory_usage > 85 THEN 6 ELSE 10
        IN  /\ fn.ret >= 0
            /\ fn.ret <= 1000
            /\ ~a.is_healthy => fn.ret = 0
            /\ a.is_healthy => fn.ret = slow * cpu * memory
            /\ (a.is_healthy /\ a.response_time = 12 /\ m.present
                  /\ m.cpu_usage = 85 /\ m.memory_usage = 0) => fn.ret = 350

C31_Witness ==
    /\ fn.op = "calculate_health_score"
    /\ fn.arg.is_healthy
    /\ fn.arg.response_time = 12
    /\ fn.arg.performance_metrics =
         [present |-> TRUE, cpu_usage |-> 85, memory_usage |-> 0]
    /\ fn.ret = 350

\* C32: no export call of MetricsExporter (export_with_fallback,
\* export_to_all) lets a backend's export failure reach its caller: the
\* failure is caught, forwarded to the fallback handler when one is
\* configured, and otherwise dropped.
C32_ExportFailureNeverReachesCaller ==
    fn.op \in {"export_to_all", "export_with_fallback"} =>
        LET failed == IF fn.op = "export_to_all"
                      THEN \E i \in 1..Len(Backends) :
                               fn.arg.clients[Backends[i]] = "raises"
                      ELSE fn.arg.clients["prometheus"] = "raises"
        IN  failed =>
              /\ fn.ret.failure # "backend"
              /\ fn.arg.fallback_handler = "returns" => fn.ret.forwarded

\* C33: once the breaker has made a transition, the last status it sent to
\* the load balancer is AVAILABLE exactly if the breaker is CLOSED now (OPEN
\* and HALF_OPEN are reported UNAVAILABLE).
C33_LoadBalancerFollowsState ==
    history.transitioned =>
        /\ history.lb_status \in {"AVAILABLE", "UNAVAILABLE"}
        /\ history.lb_status = "AVAILABLE" <=> breaker.current_state = CLOSED

\* C34: the alerting collaborator is sent an alert exactly once by each
\* transition into OPEN (from CLOSED or from HALF_OPEN) and by nothing else,
\* so that the alerts sent are as many as the times the breaker has opened.
C34_OneAlertPerOpening ==
    [][/\ breaker'.current_state # breaker.current_state =>
             notice'.calls["alerting"] =
                 (IF breaker'.current_state = OPEN THEN 1 ELSE 0)
       /\ (breaker'.current_state = breaker.current_state
              /\ last_call' # last_call) =>
             notice'.calls["alerting"] = 0
      ]_vars

\* C35: over any sequence of public calls the state changes only along
\* CLOSED to OPEN (record_failure), OPEN to HALF_OPEN (should_allow_request),
\* HALF_OPEN to CLOSED (record_success) and HALF_OPEN to OPEN
\* (record_failure), never CLOSED to HALF_OPEN or OPEN to CLOSED, and every
\* published transition has from_state different from to_state.
C35_OnlyFourEdges ==
    [][/\ breaker'.current_state # breaker.current_state =>
             <<breaker.current_state, breaker'.current_state, last_call'.op>>
                 \in {<<CLOSED, OPEN, "record_failure">>,
                      <<OPEN, HALF_OPEN, "should_allow_request">>,
                      <<HALF_OPEN, CLOSED, "record_success">>,
                      <<HALF_OPEN, OPEN, "record_failure">>}
       /\ notice'.calls["publisher"] = 1 => notice'.from # notice'.to
      ]_vars

C35_Witness ==
    /\ initial_state = CLOSED
    /\ last_call.op = "record_success"
    /\ last_call.from = HALF_OPEN
    /\ breaker.current_state = CLOSED
    /\ notice.calls["publisher"] = 1
    /\ notice.from = HALF_OPEN
    /\ notice.to = CLOSED

\* C36: for a breaker that starts CLOSED with count 0 and max_failures >= 1,
\* in every reachable state the breaker is CLOSED exactly if its failure
\* count is below max_failures.
C36_ClosedIffBelowThreshold ==
    (initial_state = CLOSED /\ max_failures >= 1) =>
        (breaker.current_state = CLOSED <=>
             breaker.current_count < max_failures)

\* C37: record_success() while the breaker is CLOSED or OPEN changes neither
\* the state nor the failure count nor the timestamps and notifies no
\* collaborator, so a success between failures does not lower the count.
C37_SuccessOutsideHalfOpenIsNoOp ==
    [][(last_call'.op = "record_success" /\ last_call'.from \in {CLOSED, OPEN}) =>
          /\ breaker' = breaker
          /\ history' = history
          /\ notice' = NoNotice
      ]_vars

C37_Witness ==
    /\ last_call.op = "record_success"
    /\ last_call.from = CLOSED
    /\ max_failures = 2
    /\ breaker.current_state = CLOSED
    /\ breaker.current_count = 1
    /\ breaker.last_failure_time # NoTime
    /\ notice = NoNotice

\* C38: a rejection by the breaker is not itself recorded as a failure: a
\* round of execute_with_retry in which should_allow_request() answers false
\* leaves the breaker's failure count and last failure time as they were.
C38_RejectionIsNotAFailure ==
    [][\A c \in Callers :
          (task'[c] # task[c] /\ task'[c].rejected) =>
              /\ breaker'.current_count = breaker.current_count
              /\ breaker'.last_failure_time = breaker.last_failure_time
      ]_vars

\* C39: an OPEN breaker is eventually probed: while time keeps advancing and
\* callers keep calling execute_with_retry, at whatever rate, the breaker
\* reaches HALF_OPEN and admits a request; rejected calls do not postpone it.
C39_OpenEventuallyProbed ==
    (breaker.current_state = OPEN) ~> (breaker.current_state = HALF_OPEN)

\* C40: RetryPolicy.should_retry is a pure decision: calling it leaves the
\* attached breaker's state, failure count and timestamps unchanged and
\* notifies no observer, for every breaker state and every elapsed time.
C40_ShouldRetryIsPure ==
    [][(last_call'.op = "should_retry" /\ now' = now) =>
          /\ breaker' = breaker
          /\ notice' = notice
      ]_vars

\* C40 amended: should_retry never changes the attached breaker's failure
\* count or last failure time, and it changes the state in one case only:
\* when attempt < max_attempts, the fault is retryable and the attached
\* breaker is OPEN with its timeout elapsed, the should_allow_request() it
\* consults moves the breaker to HALF_OPEN and stamps last_state_change; in
\* every other case it changes nothing.
C40_ShouldRetryOnlyProbes ==
    [][(last_call'.op = "should_retry" /\ now' = now) =>
          LET probes == /\ policy_cb
                        /\ last_call'.attempt < max_attempts
                        /\ last_call'.type # "WeaviatePermanentError"
                        /\ breaker.current_state = OPEN
                        /\ \/ breaker.last_failure_time = NoTime
                           \/ now - breaker.last_failure_time >= timeout_duration
          IN  /\ breaker'.current_count = breaker.current_count
              /\ breaker'.last_failure_time = breaker.last_failure_time
              /\ notice' = notice
              /\ probes =>
                    /\ breaker'.current_state = HALF_OPEN
                    /\ breaker'.last_state_change = now
                    /\ last_call'.ret
              /\ ~probes => breaker' = breaker
      ]_vars

C40_Witness ==
    /\ last_call.op = "should_retry"
    /\ last_call.from = OPEN
    /\ last_call.elapsed >= timeout_duration
    /\ last_call.ret
    /\ breaker.current_state = HALF_OPEN
    /\ breaker.last_state_change = now
    /\ breaker.current_count >= max_failures

====
